---- MODULE Spec2Model ----
(***************************************************************************)
(* State-machine model of HybridNitroEventSource (react-native-nitro-      *)
(* event-source): the SSE frame parser, the event dispatcher, the          *)
(* background connection loop and close(), with the caller threads that    *)
(* run concurrently with the connection thread.                            *)
(*                                                                         *)
(* Strings of the program are sequences of one-character strings, so that  *)
(* buffering, line splitting and field parsing are computed byte by byte.  *)
(* Indices are 1-based here and 0-based in the source; 0 stands for        *)
(* std::string::npos.                                                      *)
(***************************************************************************)
EXTENDS Integers, Sequences, FiniteSets, TLC

\* ------------------------------------------------------------------ bounds
MaxChunk == 3
MaxLines == 4
MaxListeners == 1
MaxAttempts == 2
MaxRegistered == 3

\* --------------------------------------------------------------- constants
NL == "\n"
CR == "\r"
COLON == ":"
SPACE == " "

DATA == <<"d", "a", "t", "a">>
EVENT == <<"e", "v", "e", "n", "t">>
ID == <<"i", "d">>
RETRY == <<"r", "e", "t", "r", "y">>

MESSAGE == <<"m", "e", "s", "s", "a", "g", "e">>
OPEN == <<"o", "p", "e", "n">>
ERROR == <<"e", "r", "r", "o", "r">>

Callers == {"t1", "t2"}
Owner == "t1"
Threads == Callers \cup {"bg"}

NoCallback == "nullptr"
CallbackIds == {"f"}
\* the k-th registration made while k-1 listeners are stored is named by k
ListenerIds == <<"l1", "l2", "l3", "l4">>
ListenTypes == {MESSAGE, OPEN}

\* response codes curl_easy_getinfo can report after a failed transfer
FailCodes == {0, 503}

\* ------------------------------------------------------------ pure helpers
Digits == <<"0", "1", "2", "3", "4", "5", "6", "7", "8", "9">>

RECURSIVE to_string(_)
to_string(n) ==
  IF n < 10 THEN <<Digits[n + 1]>>
  ELSE to_string(n \div 10) \o <<Digits[(n % 10) + 1]>>

NitroEventSourceEvent(id, type, data) == [id |-> id, type |-> type, data |-> data]

\* std::string::find(c, from): first index >= from holding c, 0 when absent
Find(s, c, from) ==
  LET hits == {i \in from..Len(s) : s[i] = c}
  IN IF hits = {} THEN 0 ELSE CHOOSE i \in hits : \A j \in hits : i <= j

\* line 416-419: one trailing carriage return is removed
StripCR(line) ==
  IF line # <<>> /\ line[Len(line)] = CR
  THEN SubSeq(line, 1, Len(line) - 1)
  ELSE line

\* line 434-439: the value after the colon, one leading space removed
FieldValue(line, colon_pos) ==
  LET value == SubSeq(line, colon_pos + 1, Len(line))
  IN IF value # <<>> /\ value[1] = SPACE THEN Tail(value) ELSE value

\* line 443-447: the separator is added when the accumulated data is non-empty
AppendData(event_data_, value) ==
  IF event_data_ # <<>> THEN event_data_ \o <<NL>> \o value
  ELSE event_data_ \o value

\* line 427-470: the effect of one non-empty line on the pending fields;
\* ps is [event_type, event_data, last_event_id]
ProcessField(ps, line) ==
  LET colon_pos == Find(line, COLON, 1)
  IN IF colon_pos = 0 THEN ps
     ELSE LET field == SubSeq(line, 1, colon_pos - 1)
              value == FieldValue(line, colon_pos)
          IN CASE field = DATA -> [ps EXCEPT !.event_data = AppendData(@, value)]
               [] field = EVENT -> [ps EXCEPT !.event_type = value]
               [] field = ID -> [ps EXCEPT !.last_event_id = value]
               \* retry: parsed and clamped, the result is discarded (line 457-470)
               [] field = RETRY -> ps
               [] OTHER -> ps

\* line 485: default event type
EventType(event_type_) == IF event_type_ = <<>> THEN MESSAGE ELSE event_type_

EraseAll(buf, start_) == <<>>

\* line 473: _buffer.erase(0, start)
Erase(buf, start_) == SubSeq(buf, start_, Len(buf))

\* parse_sse_chunk on a parser that is not closed, as a function: ps carries
\* the pending fields and the buffer, out the events handed to dispatch_event
RECURSIVE ScanLines(_, _, _, _)
ScanLines(ps, buf, start_, out) ==
  LET pos == Find(buf, NL, start_)
  IN IF pos = 0
     THEN [ps |-> ps, buffer |-> Erase(buf, start_), out |-> out]
     ELSE LET line == StripCR(SubSeq(buf, start_, pos - 1))
          IN IF line = <<>>
             THEN IF ps.event_data = <<>>
                  THEN ScanLines(ps, buf, pos + 1, out)
                  ELSE ScanLines([ps EXCEPT !.event_type = <<>>, !.event_data = <<>>],
                                 buf, pos + 1,
                                 Append(out, NitroEventSourceEvent(ps.last_event_id,
                                               EventType(ps.event_type), ps.event_data)))
             ELSE ScanLines(ProcessField(ps, line), buf, pos + 1, out)

EmptyPending == [event_type |-> <<>>, event_data |-> <<>>, last_event_id |-> <<>>]

FeedOneChunk(ps, buf, chunk_) == ScanLines(ps, buf \o chunk_, 1, <<>>)

\* ------------------------------------------------------------------- state
VARIABLES
  closed, running, should_retry, open_event_sent,   \* atomics
  event_callback, event_listeners,                  \* registries
  callback_mutex, listeners_mutex, buffer_mutex,    \* owner or "none"
  buffer, event_type, event_data, last_event_id,    \* parser
  curl_thread,        \* "joinable" | "joined"
  owners,             \* shared_ptr owners: [caller, thread]
  pc,                 \* position of the connection thread
  ret,                \* caller of dispatch_event: "open" | "parse" | "error"
  event,              \* argument of dispatch_event
  listeners_copy, idx,
  chunk, start,       \* write_callback argument, parse loop cursor
  net, served,        \* bytes of the response still to arrive, whole response
  response_code,
  closePc,            \* position of each thread inside close()
  callerPc,           \* pending caller operation
  \* history
  log,                \* consumer invocations of the current dispatch_event
  emitted,            \* events the parser handed to dispatch_event, this attempt
  sent,               \* events dispatch_event accepted (line 197), this attempt
  nline,              \* lines consumed by the parser in the current attempt
  bodies,             \* transfers for which the server will still send a body
  closeReturns,       \* close() calls that have returned, counted up to 2
  destructed          \* ~HybridNitroEventSource has been entered

atomics == <<closed, running, should_retry, open_event_sent>>
registries == <<event_callback, event_listeners>>
mutexes == <<callback_mutex, listeners_mutex, buffer_mutex>>
parser == <<buffer, event_type, event_data, last_event_id>>
dispatchLocals == <<ret, event, listeners_copy, idx>>
transport == <<chunk, start, net, served, response_code>>
history == <<log, emitted, sent, nline, bodies, closeReturns, destructed>>

vars == <<closed, running, should_retry, open_event_sent, event_callback,
          event_listeners, callback_mutex, listeners_mutex, buffer_mutex,
          buffer, event_type, event_data, last_event_id, curl_thread, owners,
          pc, ret, event, listeners_copy, idx, chunk, start, net, served,
          response_code, closePc, callerPc, log, emitted, sent, nline,
          bodies, closeReturns, destructed>>

Idle == [op |-> "idle"]
NoEvent == NitroEventSourceEvent(<<>>, <<>>, <<>>)
EmptyRegistry == [t \in {} |-> <<>>]

\* some close() call has returned
closeReturned == closeReturns > 0

\* not inside close()
CloseIdle(t) == closePc[t] = "none"


\* ------------------------------------------------------------------ inputs
\* A response is a sequence of lines; each line is its text and its
\* terminator.  kind and val say what the server meant by the line.
DataA == [kind |-> "data", val |-> <<"a">>, text |-> DATA \o <<COLON, "a">>, eol |-> <<NL>>]
DataB == [kind |-> "data", val |-> <<"b">>, text |-> DATA \o <<COLON, SPACE, "b">>, eol |-> <<CR, NL>>]
DataEmpty == [kind |-> "data", val |-> <<>>, text |-> DATA \o <<COLON>>, eol |-> <<NL>>]
EventE == [kind |-> "event", val |-> <<"e">>, text |-> EVENT \o <<COLON, "e">>, eol |-> <<NL>>]
IdOne == [kind |-> "id", val |-> <<"1">>, text |-> ID \o <<COLON, SPACE, "1">>, eol |-> <<NL>>]
Comment == [kind |-> "comment", val |-> <<>>, text |-> <<COLON, "c">>, eol |-> <<NL>>]
Blank == [kind |-> "blank", val |-> <<>>, text |-> <<>>, eol |-> <<NL>>]

LineTokens == {DataA, DataB, DataEmpty, EventE, IdOne, Comment, Blank}

IdTwo == [kind |-> "id", val |-> <<"2">>, text |-> ID \o <<COLON, "2">>, eol |-> <<CR, NL>>]
IdEmpty == [kind |-> "id", val |-> <<>>, text |-> ID \o <<COLON>>, eol |-> <<NL>>]

\* the lines of a response that sets, changes and clears the event id
IdTokens == {IdOne, IdTwo, IdEmpty, DataA, Blank}

RECURSIVE Render(_)
Render(lines) ==
  IF lines = <<>> THEN <<>>
  ELSE Head(lines).text \o Head(lines).eol \o Render(Tail(lines))

SeqsUpTo(S, n) == UNION {[1..k -> S] : k \in 0..n}

\* what the server sends in the concurrency model: one complete event
ServedLines == {<<DataA, Blank>>}

Min(a, b) == IF a < b THEN a ELSE b

\* std::unordered_map::operator[] followed by emplace_back
Insert(reg, type, listener) ==
  IF type \in DOMAIN reg
  THEN [reg EXCEPT ![type] = Append(@, listener)]
  ELSE [k \in DOMAIN reg \cup {type} |->
          IF k = type THEN <<listener>> ELSE reg[k]]

\* the registries that k addEventListener calls leave behind
RECURSIVE RegistriesOf(_)
RegistriesOf(k) ==
  IF k = 0 THEN {EmptyRegistry}
  ELSE {Insert(reg, ty, ListenerIds[k]) : reg \in RegistriesOf(k - 1), ty \in ListenTypes}

Registries == UNION {RegistriesOf(k) : k \in 0..MaxRegistered}

\* -------------------------------------------------------------------- Init
InitCommon ==
  /\ closed = FALSE
  /\ running = TRUE
  /\ should_retry = TRUE
  /\ open_event_sent = FALSE
  /\ callback_mutex = "none"
  /\ listeners_mutex = "none"
  /\ buffer_mutex = "none"
  /\ buffer = <<>>
  /\ event_type = <<>>
  /\ event_data = <<>>
  /\ last_event_id = <<>>
  /\ curl_thread = "joinable"
  /\ ret = "open"
  /\ event = NoEvent
  /\ listeners_copy = <<>>
  /\ idx = 1
  /\ chunk = <<>>
  /\ start = 1
  /\ response_code = 0
  /\ closePc = [t \in Threads |-> "none"]
  /\ callerPc = [t \in Callers |-> Idle]
  /\ log = <<>>
  /\ emitted = <<>>
  /\ sent = <<>>
  /\ nline = 0
  /\ closeReturns = 0
  /\ destructed = FALSE

\* create() has returned: the thread object exists, its lambda has not run yet
Init ==
  /\ InitCommon
  /\ event_callback = NoCallback
  /\ event_listeners = EmptyRegistry
  /\ owners = [caller |-> TRUE, thread |-> FALSE]
  /\ pc = "start"
  /\ served \in ServedLines
  /\ net = <<>>
  /\ bodies = MaxAttempts

\* the same, with a server that sends the body once and then fails or sends
\* empty responses
InitSeq ==
  /\ InitCommon
  /\ event_callback = NoCallback
  /\ event_listeners = EmptyRegistry
  /\ owners = [caller |-> TRUE, thread |-> FALSE]
  /\ pc = "start"
  /\ served \in ServedLines
  /\ net = <<>>
  /\ bodies = 1

\* create() has returned and the consumers were registered before the
\* thread lambda ran
InitLive ==
  /\ InitCommon
  /\ event_callback \in CallbackIds \cup {NoCallback}
  /\ event_listeners \in {EmptyRegistry} \cup
                          {Insert(EmptyRegistry, ty, ListenerIds[1]) : ty \in ListenTypes}
  /\ owners = [caller |-> TRUE, thread |-> FALSE]
  /\ pc = "start"
  /\ served \in ServedLines
  /\ net = <<>>
  /\ bodies = 1

\* the parser on its own: the first transfer has started, a primary callback
\* is set, and the response is any sequence of at most MaxLines lines
InitParse ==
  /\ InitCommon
  /\ event_callback \in CallbackIds
  /\ event_listeners = EmptyRegistry
  /\ owners = [caller |-> TRUE, thread |-> TRUE]
  /\ pc = "perform"
  /\ served \in SeqsUpTo(LineTokens, MaxLines)
  /\ net = Render(served)
  /\ bodies = 0

\* create() has returned, a primary callback is set, nobody calls close();
\* the response is any sequence of at most MaxLines lines with id: fields,
\* and the attempts after the one that receives it get no body
InitId ==
  /\ InitCommon
  /\ event_callback \in CallbackIds
  /\ event_listeners = EmptyRegistry
  /\ owners = [caller |-> TRUE, thread |-> FALSE]
  /\ pc = "start"
  /\ served \in SeqsUpTo(IdTokens, MaxLines)
  /\ net = <<>>
  /\ bodies = 1

\* create() has returned and the consumers were registered before the
\* thread lambda ran: a primary callback or none, up to MaxRegistered listeners
InitDispatch ==
  /\ InitCommon
  /\ event_callback \in CallbackIds \cup {NoCallback}
  /\ event_listeners \in Registries
  /\ owners = [caller |-> TRUE, thread |-> FALSE]
  /\ pc = "start"
  /\ served \in ServedLines
  /\ net = <<>>
  /\ bodies = 1

\* create() has returned with the consumers registered, and the server
\* sends the response again on each of the first MaxAttempts transfers
InitRetry ==
  /\ InitCommon
  /\ event_callback \in CallbackIds \cup {NoCallback}
  /\ event_listeners \in {EmptyRegistry} \cup
                          {Insert(EmptyRegistry, ty, ListenerIds[1]) : ty \in ListenTypes}
  /\ owners = [caller |-> TRUE, thread |-> FALSE]
  /\ pc = "start"
  /\ served \in ServedLines
  /\ net = <<>>
  /\ bodies = MaxAttempts

\* create() has returned with a primary callback and one listener, and the
\* server sends a body once
InitLoop ==
  /\ InitCommon
  /\ event_callback \in CallbackIds
  /\ event_listeners = Insert(EmptyRegistry, MESSAGE, ListenerIds[1])
  /\ owners = [caller |-> TRUE, thread |-> FALSE]
  /\ pc = "start"
  /\ served \in ServedLines
  /\ net = <<>>
  /\ bodies = 1

\* ------------------------------------------------- connection thread steps
ReturnTo(r) ==
  CASE r = "open" -> "wc_parse"
    [] r = "parse" -> "pe_reset"
    [] r = "error" -> "backoff"

LogEntry(who) == [who |-> who, from |-> ret, ev |-> event, raised |-> FALSE]

\* create(), line 72-79: the thread lambda locks the weak_ptr and keeps the
\* resulting shared_ptr while connect() runs
ThreadStart ==
  /\ pc = "start"
  /\ IF owners.caller
     THEN /\ owners' = [owners EXCEPT !.thread = TRUE]
          /\ pc' = "loop_top"
     ELSE /\ pc' = "exit"
          /\ UNCHANGED owners
  /\ UNCHANGED <<atomics, registries, mutexes, parser, curl_thread,
                 dispatchLocals, transport, closePc, callerPc, history>>

\* connect(), line 260.  The three loads are one step: running and
\* should_retry are only ever cleared after closed is set, so the conjunction
\* has the value of !closed at the last load.  The previous attempt is over:
\* its connection and the locals of attempt_connection are gone, and so are
\* the histories kept for it.
ConnectLoopTop ==
  /\ pc = "loop_top"
  /\ pc' = IF running /\ should_retry /\ ~closed THEN "reset_open" ELSE "STOPPED"
  /\ net' = <<>>
  /\ response_code' = 0
  /\ emitted' = <<>>
  /\ sent' = <<>>
  /\ nline' = 0
  /\ UNCHANGED <<atomics, registries, mutexes, parser, curl_thread, owners,
                 dispatchLocals, chunk, start, served, closePc, callerPc,
                 log, bodies, closeReturns, destructed>>

AttemptStartKeepsOpenFlag ==
  /\ pc = "reset_open"
  /\ pc' = "perform"
  /\ net' = IF bodies > 0 THEN Render(served) ELSE <<>>
  /\ bodies' = IF bodies > 0 THEN bodies - 1 ELSE 0
  /\ response_code' = 0
  /\ emitted' = <<>>
  /\ sent' = <<>>
  /\ nline' = 0
  /\ UNCHANGED <<atomics, registries, mutexes, parser, curl_thread, owners,
                 dispatchLocals, chunk, start, served, closePc, callerPc, log,
                 closeReturns, destructed>>

\* connect(), line 262, and attempt_connection(), line 325-380: the flag is
\* reset, the handle and its options are set up and the transfer starts
AttemptStart ==
  /\ pc = "reset_open"
  /\ open_event_sent' = FALSE
  /\ pc' = "perform"
  /\ net' = IF bodies > 0 THEN Render(served) ELSE <<>>
  /\ bodies' = IF bodies > 0 THEN bodies - 1 ELSE 0
  /\ response_code' = 0
  /\ emitted' = <<>>
  /\ sent' = <<>>
  /\ nline' = 0
  /\ UNCHANGED <<closed, running, should_retry, registries, mutexes, parser,
                 curl_thread, owners, dispatchLocals, chunk, start, served,
                 closePc, callerPc, log, closeReturns, destructed>>

\* connect(), line 262, and attempt_connection(), line 326-330, 343-353,
\* 375-378: set-up fails and the attempt returns false without a transfer;
\* response_code, a local of the failure branch (line 386), does not exist
AttemptStartFails ==
  /\ pc = "reset_open"
  /\ open_event_sent' = FALSE
  /\ pc' = "backoff"
  /\ response_code' = 0
  /\ sent' = <<>>
  /\ UNCHANGED <<closed, running, should_retry, registries, mutexes, parser,
                 curl_thread, owners, dispatchLocals, chunk, start, net,
                 served, closePc, callerPc, log, emitted, nline, bodies,
                 closeReturns, destructed>>

ProgressNeverAborts == IF running /\ ~closed THEN 0 ELSE 0

\* progress_callback, line 20: 0 continues the transfer, 1 aborts it
progress_callback == IF running /\ ~closed THEN 0 ELSE 1

\* the transport polls the abort hook; an abort ends curl_easy_perform with
\* CURLE_ABORTED_BY_CALLBACK and attempt_connection returns true (line 395)
ProgressPoll ==
  /\ pc = "perform"
  /\ pc' = IF progress_callback = 0 THEN "perform" ELSE "loop_top"
  /\ UNCHANGED <<atomics, registries, mutexes, parser, curl_thread, owners,
                 dispatchLocals, transport, closePc, callerPc, history>>

\* the transport hands the next bytes of the body to write_callback
TransportDeliver ==
  /\ pc = "perform"
  /\ net # <<>>
  /\ \E k \in 1..Min(MaxChunk, Len(net)) :
       /\ chunk' = SubSeq(net, 1, k)
       /\ net' = SubSeq(net, k + 1, Len(net))
  /\ pc' = "wc_check"
  /\ UNCHANGED <<atomics, registries, mutexes, parser, curl_thread, owners,
                 dispatchLocals, start, served, response_code, closePc,
                 callerPc, history>>

\* the response ends: CURLE_OK, attempt_connection returns true (line 395)
TransportFinish ==
  /\ pc = "perform"
  /\ pc' = "loop_top"
  /\ UNCHANGED <<atomics, registries, mutexes, parser, curl_thread, owners,
                 dispatchLocals, transport, closePc, callerPc, history>>

\* the transfer fails, with or without an HTTP status (line 382-387)
TransportFail ==
  /\ pc = "perform"
  /\ \E code \in FailCodes : response_code' = code
  /\ pc' = "fail"
  /\ UNCHANGED <<atomics, registries, mutexes, parser, curl_thread, owners,
                 dispatchLocals, chunk, start, net, served, closePc, callerPc,
                 history>>

AttemptFailAlwaysReports ==
  /\ pc = "fail"
  /\ event' = NitroEventSourceEvent(last_event_id, ERROR, to_string(response_code))
  /\ ret' = "error"
  /\ pc' = "de_check"
  /\ UNCHANGED <<atomics, registries, mutexes, parser, curl_thread, owners,
                 listeners_copy, idx, transport, closePc, callerPc, history>>

\* attempt_connection(), line 388-395 on a genuine failure
AttemptFail ==
  /\ pc = "fail"
  /\ IF response_code > 0
     THEN /\ event' = NitroEventSourceEvent(last_event_id, ERROR, to_string(response_code))
          /\ ret' = "error"
          /\ pc' = "de_check"
     ELSE /\ pc' = "backoff"
          /\ UNCHANGED <<event, ret>>
  /\ UNCHANGED <<atomics, registries, mutexes, parser, curl_thread, owners,
                 listeners_copy, idx, transport, closePc, callerPc, history>>

BackoffGivesUp ==
  /\ pc = "backoff"
  /\ pc' = "STOPPED"
  /\ UNCHANGED <<atomics, registries, mutexes, parser, curl_thread, owners,
                 dispatchLocals, transport, closePc, callerPc, history>>

\* connect(), line 268-273: the wait ends when the window has elapsed or a
\* flag changed; the sleeps in between change nothing
Backoff ==
  /\ pc = "backoff"
  /\ pc' = "loop_top"
  /\ UNCHANGED <<atomics, registries, mutexes, parser, curl_thread, owners,
                 dispatchLocals, transport, closePc, callerPc, history>>

\* connect() has returned (line 277); the lambda's shared_ptr is released and
\* the thread ends.  Releasing the last owner runs the destructor.
ThreadExit ==
  /\ pc = "STOPPED"
  /\ pc' = "exit"
  /\ owners' = [owners EXCEPT !.thread = FALSE]
  /\ destructed' = (destructed \/ ~owners.caller)
  /\ UNCHANGED <<atomics, registries, mutexes, parser, curl_thread,
                 dispatchLocals, transport, closePc, callerPc, log, emitted,
                 nline, bodies, closeReturns, sent>>


\* ------------------------------------------------------ write_callback steps
\* line 35-38: returning 0 makes curl_easy_perform fail with a write error,
\* which is neither CURLE_OK nor CURLE_ABORTED_BY_CALLBACK; a body was being
\* received, so a status (200) had been obtained
WriteCheck ==
  /\ pc = "wc_check"
  /\ IF ~running \/ closed
     THEN /\ pc' = "fail"
          /\ response_code' = 200
          /\ chunk' = <<>>
     ELSE /\ pc' = "wc_cas"
          /\ UNCHANGED <<response_code, chunk>>
  /\ UNCHANGED <<atomics, registries, mutexes, parser, curl_thread, owners,
                 dispatchLocals, start, net, served, closePc, callerPc, history>>

\* line 40-48: compare_exchange_strong(expected = false, true) on a flag
\* only this thread touches, then the closed check and the open event
WriteOpen ==
  /\ pc = "wc_cas"
  /\ open_event_sent' = TRUE
  /\ IF ~open_event_sent /\ ~closed
     THEN /\ event' = NitroEventSourceEvent(last_event_id, OPEN, <<>>)
          /\ ret' = "open"
          /\ pc' = "de_check"
     ELSE /\ pc' = "wc_parse"
          /\ UNCHANGED <<event, ret>>
  /\ UNCHANGED <<closed, running, should_retry, registries, mutexes, parser,
                 curl_thread, owners, listeners_copy, idx, transport, closePc,
                 callerPc, history>>

\* line 50-55
WriteParse ==
  /\ pc = "wc_parse"
  /\ IF ~closed
     THEN /\ pc' = "ps_check"
          /\ UNCHANGED chunk
     ELSE /\ pc' = "perform"
          /\ chunk' = <<>>
  /\ UNCHANGED <<atomics, registries, mutexes, parser, curl_thread, owners,
                 dispatchLocals, start, net, served, response_code, closePc,
                 callerPc, history>>

\* ----------------------------------------------------- parse_sse_chunk steps
\* line 401-410: the closed check, then the lock and the append; no other
\* thread holds the buffer mutex for longer than one step
ParseEnter ==
  /\ pc = "ps_check"
  /\ IF chunk = <<>> \/ closed
     THEN /\ pc' = "perform"
          /\ chunk' = <<>>
          /\ UNCHANGED <<buffer_mutex, buffer, start>>
     ELSE /\ buffer_mutex = "none"
          /\ buffer_mutex' = "bg"
          /\ buffer' = buffer \o chunk
          /\ start' = 1
          /\ pc' = "ps_loop"
          /\ UNCHANGED chunk
  /\ UNCHANGED <<atomics, registries, callback_mutex, listeners_mutex,
                 event_type, event_data, last_event_id, curl_thread, owners,
                 dispatchLocals, net, served, response_code, closePc,
                 callerPc, history>>

\* line 412-473: one iteration of the line loop, or its exit
ParseLoop ==
  /\ pc = "ps_loop"
  /\ LET pos == Find(buffer, NL, start)
     IN IF pos = 0
        THEN /\ buffer' = Erase(buffer, start)
             /\ buffer_mutex' = "none"
             /\ start' = 1
             /\ chunk' = <<>>
             /\ pc' = "perform"
             /\ UNCHANGED <<event_type, event_data, last_event_id, nline>>
        ELSE LET line == StripCR(SubSeq(buffer, start, pos - 1))
                 ps == ProcessField([event_type |-> event_type,
                                     event_data |-> event_data,
                                     last_event_id |-> last_event_id], line)
             IN /\ start' = pos + 1
                /\ nline' = nline + 1
                /\ UNCHANGED <<buffer, buffer_mutex, chunk>>
                /\ IF line = <<>>
                   THEN /\ pc' = "pe_check"
                        /\ UNCHANGED <<event_type, event_data, last_event_id>>
                   ELSE /\ pc' = "ps_loop"
                        /\ event_type' = ps.event_type
                        /\ event_data' = ps.event_data
                        /\ last_event_id' = ps.last_event_id
  /\ UNCHANGED <<atomics, registries, callback_mutex, listeners_mutex,
                 curl_thread, owners, dispatchLocals, net, served,
                 response_code, closePc, callerPc, log, emitted, bodies,
                 closeReturns, destructed, sent>>

\* process_sse_event, line 479-482
ProcessCheck ==
  /\ pc = "pe_check"
  /\ pc' = IF event_data = <<>> \/ closed THEN "ps_loop" ELSE "pe_make"
  /\ UNCHANGED <<atomics, registries, mutexes, parser, curl_thread, owners,
                 dispatchLocals, transport, closePc, callerPc, history>>

\* process_sse_event, line 485-492
ProcessMake ==
  /\ pc = "pe_make"
  /\ IF ~closed
     THEN /\ event' = NitroEventSourceEvent(last_event_id, EventType(event_type), event_data)
          /\ emitted' = Append(emitted, [ev |-> event', line |-> nline])
          /\ ret' = "parse"
          /\ pc' = "de_check"
     ELSE /\ pc' = "pe_reset"
          /\ UNCHANGED <<event, ret, emitted>>
  /\ UNCHANGED <<atomics, registries, mutexes, parser, curl_thread, owners,
                 listeners_copy, idx, transport, closePc, callerPc, log,
                 nline, bodies, closeReturns, destructed, sent>>

ProcessResetClearsId ==
  /\ pc = "pe_reset"
  /\ event_type' = <<>>
  /\ event_data' = <<>>
  /\ last_event_id' = <<>>
  /\ pc' = "ps_loop"
  /\ UNCHANGED <<atomics, registries, mutexes, buffer, curl_thread, owners,
                 dispatchLocals, transport, closePc, callerPc, history>>

\* process_sse_event, line 495-496
ProcessReset ==
  /\ pc = "pe_reset"
  /\ event_type' = <<>>
  /\ event_data' = <<>>
  /\ pc' = "ps_loop"
  /\ UNCHANGED <<atomics, registries, mutexes, buffer, last_event_id,
                 curl_thread, owners, dispatchLocals, transport, closePc,
                 callerPc, history>>

\* ------------------------------------------------------ dispatch_event steps
\* line 197-200
DispatchCheck ==
  /\ pc = "de_check"
  /\ IF closed
     THEN /\ pc' = ReturnTo(ret)
          /\ event' = NoEvent
     ELSE /\ pc' = "de_lock"
          /\ UNCHANGED event
  /\ sent' = IF closed THEN sent ELSE Append(sent, [from |-> ret, ev |-> event])
  /\ log' = <<>>
  /\ UNCHANGED <<atomics, registries, mutexes, parser, curl_thread, owners,
                 ret, listeners_copy, idx, transport, closePc, callerPc,
                 emitted, nline, bodies, closeReturns, destructed>>

\* line 204-209: the callback mutex is taken and, when a callback is set, it
\* is invoked with the mutex held
DispatchLock ==
  /\ pc = "de_lock"
  /\ callback_mutex = "none"
  /\ IF event_callback # NoCallback
     THEN /\ callback_mutex' = "bg"
          /\ log' = Append(log, LogEntry(event_callback))
          /\ pc' = "cb_run"
     ELSE /\ pc' = "de_copy"
          /\ UNCHANGED <<callback_mutex, log>>
  /\ UNCHANGED <<atomics, registries, listeners_mutex, buffer_mutex, parser,
                 curl_thread, owners, dispatchLocals, transport, closePc,
                 callerPc, emitted, nline, bodies, closeReturns, destructed,
                 sent>>

\* line 209-220: the callback returns, or raises and the exception is caught
\* and logged; the lock_guard releases the mutex
CallbackReturn ==
  /\ pc = "cb_run"
  /\ CloseIdle("bg")
  /\ callback_mutex' = "none"
  /\ pc' = "de_copy"
  /\ UNCHANGED <<atomics, registries, listeners_mutex, buffer_mutex, parser,
                 curl_thread, owners, dispatchLocals, transport, closePc,
                 callerPc, history>>

\* line 209-218: the callback raises; the exception is caught and logged
\* inside the lock_guard scope, which then releases the mutex (line 220)
CallbackRaises ==
  /\ pc = "cb_run"
  /\ CloseIdle("bg")
  /\ log' = [log EXCEPT ![Len(log)].raised = TRUE]
  /\ callback_mutex' = "none"
  /\ pc' = "de_copy"
  /\ UNCHANGED <<atomics, registries, listeners_mutex, buffer_mutex, parser,
                 curl_thread, owners, dispatchLocals, transport, closePc,
                 callerPc, emitted, nline, bodies, closeReturns, destructed,
                 sent>>

Reverse(q) == [i \in 1..Len(q) |-> q[Len(q) + 1 - i]]

DispatchCopyReversed ==
  /\ pc = "de_copy"
  /\ listeners_mutex = "none"
  /\ listeners_copy' = IF event.type \in DOMAIN event_listeners
                       THEN Reverse(event_listeners[event.type]) ELSE <<>>
  /\ idx' = 1
  /\ pc' = "de_iter"
  /\ UNCHANGED <<atomics, registries, mutexes, parser, curl_thread, owners,
                 ret, event, transport, closePc, callerPc, history>>

\* line 224-232: the copy is taken inside one lock_guard scope, which is
\* one step
DispatchCopy ==
  /\ pc = "de_copy"
  /\ listeners_mutex = "none"
  /\ listeners_copy' = IF event.type \in DOMAIN event_listeners
                       THEN event_listeners[event.type] ELSE <<>>
  /\ idx' = 1
  /\ pc' = "de_iter"
  /\ UNCHANGED <<atomics, registries, mutexes, parser, curl_thread, owners,
                 ret, event, transport, closePc, callerPc, history>>

\* line 234-241: the loop over the copy, with the closed check before each
\* listener
DispatchIter ==
  /\ pc = "de_iter"
  /\ IF idx > Len(listeners_copy) \/ closed
     THEN /\ pc' = ReturnTo(ret)
          /\ event' = NoEvent
          /\ listeners_copy' = <<>>
          /\ idx' = 1
          /\ log' = <<>>
     ELSE /\ log' = Append(log, LogEntry(listeners_copy[idx]))
          /\ pc' = "ls_run"
          /\ UNCHANGED <<event, listeners_copy, idx>>
  /\ UNCHANGED <<atomics, registries, mutexes, parser, curl_thread, owners,
                 ret, transport, closePc, callerPc, emitted, nline, bodies,
                 closeReturns, destructed, sent>>

\* line 241-250: the listener returns, or raises and the exception is caught
ListenerReturn ==
  /\ pc = "ls_run"
  /\ CloseIdle("bg")
  /\ idx' = idx + 1
  /\ pc' = "de_iter"
  /\ UNCHANGED <<atomics, registries, mutexes, parser, curl_thread, owners,
                 ret, event, listeners_copy, transport, closePc, callerPc,
                 history>>

ListenerRaisesSkipsRest ==
  /\ pc = "ls_run"
  /\ CloseIdle("bg")
  /\ log' = [log EXCEPT ![Len(log)].raised = TRUE]
  /\ idx' = Len(listeners_copy) + 1
  /\ pc' = "de_iter"
  /\ UNCHANGED <<atomics, registries, mutexes, parser, curl_thread, owners,
                 ret, event, listeners_copy, transport, closePc, callerPc,
                 emitted, nline, bodies, closeReturns, destructed, sent>>

\* line 241-250: the listener raises; the exception is caught and logged and
\* the loop goes on to the next listener
ListenerRaises ==
  /\ pc = "ls_run"
  /\ CloseIdle("bg")
  /\ log' = [log EXCEPT ![Len(log)].raised = TRUE]
  /\ idx' = idx + 1
  /\ pc' = "de_iter"
  /\ UNCHANGED <<atomics, registries, mutexes, parser, curl_thread, owners,
                 ret, event, listeners_copy, transport, closePc, callerPc,
                 emitted, nline, bodies, closeReturns, destructed, sent>>

\* ------------------------------------------------------------------ close()
ExchangeIgnored(old) == FALSE

\* line 98: _closed.exchange(true) returns the previous value; a true result
\* makes close() return at once
AlreadyClosed(old) == old

\* line 98-102
CloseEnter(t) ==
  /\ closePc[t] = "enter"
  /\ closed' = TRUE
  /\ IF AlreadyClosed(closed)
     THEN /\ closePc' = [closePc EXCEPT ![t] = "none"]
          /\ closeReturns' = Min(closeReturns + 1, 2)
     ELSE /\ closePc' = [closePc EXCEPT ![t] = "store_flags"]
          /\ UNCHANGED closeReturns
  /\ UNCHANGED <<running, should_retry, open_event_sent, registries, mutexes,
                 parser, curl_thread, owners, pc, dispatchLocals, transport,
                 callerPc, log, emitted, nline, bodies, destructed, sent>>

\* line 106-107
CloseStoreFlags(t) ==
  /\ closePc[t] = "store_flags"
  /\ running' = FALSE
  /\ should_retry' = FALSE
  /\ closePc' = [closePc EXCEPT ![t] = "clear_cb"]
  /\ UNCHANGED <<closed, open_event_sent, registries, mutexes, parser,
                 curl_thread, owners, pc, dispatchLocals, transport, callerPc,
                 history>>

\* line 109-112: lock, reset, unlock; the lock is only obtained while no
\* thread holds the mutex
CloseClearCallback(t) ==
  /\ closePc[t] = "clear_cb"
  /\ callback_mutex = "none"
  /\ event_callback' = NoCallback
  /\ closePc' = [closePc EXCEPT ![t] = "clear_ls"]
  /\ UNCHANGED <<atomics, event_listeners, mutexes, parser, curl_thread,
                 owners, pc, dispatchLocals, transport, callerPc, history>>

\* line 114-117
CloseClearListeners(t) ==
  /\ closePc[t] = "clear_ls"
  /\ listeners_mutex = "none"
  /\ event_listeners' = EmptyRegistry
  /\ closePc' = [closePc EXCEPT ![t] = "join"]
  /\ UNCHANGED <<atomics, event_callback, mutexes, parser, curl_thread,
                 owners, pc, dispatchLocals, transport, callerPc, history>>

\* line 119-130: join() returns when the connection thread has ended; called
\* on the connection thread itself it raises resource_deadlock_would_occur,
\* which is caught, and the thread stays joinable
CloseJoin(t) ==
  /\ closePc[t] = "join"
  /\ IF curl_thread = "joinable" /\ t # "bg"
     THEN /\ pc = "exit"
          /\ curl_thread' = "joined"
     ELSE UNCHANGED curl_thread
  /\ closePc' = [closePc EXCEPT ![t] = "clear_buf"]
  /\ UNCHANGED <<atomics, registries, mutexes, parser, owners, pc,
                 dispatchLocals, transport, callerPc, history>>

\* line 132-139
CloseClearBuffer(t) ==
  /\ closePc[t] = "clear_buf"
  /\ buffer_mutex = "none"
  /\ buffer' = <<>>
  /\ event_type' = <<>>
  /\ event_data' = <<>>
  /\ closePc' = [closePc EXCEPT ![t] = "none"]
  /\ closeReturns' = Min(closeReturns + 1, 2)
  /\ UNCHANGED <<atomics, registries, mutexes, last_event_id, curl_thread,
                 owners, pc, dispatchLocals, transport, callerPc, log,
                 emitted, nline, bodies, destructed, sent>>

\* close() locks a std::mutex its own thread already holds (line 110 inside
\* the primary callback, line 133 inside a listener run from the parser)
Relocks(t) ==
  \/ closePc[t] = "clear_cb" /\ callback_mutex = t
  \/ closePc[t] = "clear_buf" /\ buffer_mutex = t

\* relocking is undefined behaviour; this outcome is the thread blocking on
\* itself for ever
CloseRelockBlocks(t) ==
  /\ Relocks(t)
  /\ closePc' = [closePc EXCEPT ![t] = "deadlock"]
  /\ UNCHANGED <<atomics, registries, mutexes, parser, curl_thread, owners,
                 pc, dispatchLocals, transport, callerPc, history>>

\* the other outcome: lock() raises std::system_error, which leaves close()
\* and the consumer callback and is caught by dispatch_event (line 211, 243)
CloseRelockThrows(t) ==
  /\ Relocks(t)
  /\ closePc' = [closePc EXCEPT ![t] = "none"]
  /\ IF pc = "cb_run"
     THEN /\ callback_mutex' = "none"
          /\ pc' = "de_copy"
          /\ UNCHANGED idx
     ELSE /\ idx' = idx + 1
          /\ pc' = "de_iter"
          /\ UNCHANGED callback_mutex
  /\ UNCHANGED <<atomics, registries, listeners_mutex, buffer_mutex, parser,
                 curl_thread, owners, ret, event, listeners_copy, transport,
                 callerPc, history>>

\* a consumer callback running on the connection thread calls close()
CallbackCallsClose ==
  /\ pc \in {"cb_run", "ls_run"}
  /\ CloseIdle("bg")
  /\ closePc' = [closePc EXCEPT !["bg"] = "enter"]
  /\ UNCHANGED <<atomics, registries, mutexes, parser, curl_thread, owners,
                 pc, dispatchLocals, transport, callerPc, history>>

\* ------------------------------------------------------------ caller threads
CallerReady(t) ==
  /\ owners.caller
  /\ callerPc[t] = Idle
  /\ CloseIdle(t)

RECURSIVE SumLen(_, _)
SumLen(reg, keys) ==
  IF keys = {} THEN 0
  ELSE LET k == CHOOSE x \in keys : TRUE
       IN Len(reg[k]) + SumLen(reg, keys \ {k})

TotalListeners == SumLen(event_listeners, DOMAIN event_listeners)
PendingAdds == Cardinality({u \in Callers : callerPc[u].op = "add"})

NextListener == ListenerIds[((TotalListeners + PendingAdds) % Len(ListenerIds)) + 1]

CallClose(t) ==
  /\ CallerReady(t)
  /\ closePc' = [closePc EXCEPT ![t] = "enter"]
  /\ UNCHANGED <<atomics, registries, mutexes, parser, curl_thread, owners,
                 pc, dispatchLocals, transport, callerPc, history>>

\* setEventCallback, line 146-147
setEventCallback(t, callback) ==
  /\ CallerReady(t)
  /\ callback_mutex = "none"
  /\ event_callback' = callback
  /\ UNCHANGED <<atomics, event_listeners, mutexes, parser, curl_thread,
                 owners, pc, dispatchLocals, transport, closePc, callerPc,
                 history>>

\* addEventListener, line 154-158: the closed check, before the lock
addEventListenerCheck(t, type, listener) ==
  /\ CallerReady(t)
  /\ TotalListeners + PendingAdds < MaxListeners
  /\ callerPc' = IF closed THEN callerPc
                 ELSE [callerPc EXCEPT ![t] = [op |-> "add", type |-> type,
                                               listener |-> listener]]
  /\ UNCHANGED <<atomics, registries, mutexes, parser, curl_thread, owners,
                 pc, dispatchLocals, transport, closePc, history>>

\* addEventListener, line 160-161
addEventListenerInsert(t) ==
  /\ callerPc[t].op = "add"
  /\ listeners_mutex = "none"
  /\ event_listeners' = Insert(event_listeners, callerPc[t].type, callerPc[t].listener)
  /\ callerPc' = [callerPc EXCEPT ![t] = Idle]
  /\ UNCHANGED <<atomics, event_callback, mutexes, parser, curl_thread,
                 owners, pc, dispatchLocals, transport, closePc, history>>

RemoveFirst(reg, type) ==
  IF type \notin DOMAIN reg THEN reg
  ELSE IF reg[type] = <<>> THEN reg
  ELSE IF Len(reg[type]) = 1
       THEN [k \in DOMAIN reg \ {type} |-> reg[k]]
       ELSE [reg EXCEPT ![type] = Tail(@)]

\* line 171-191 on the registry
Remove(reg, type) ==
  IF type \notin DOMAIN reg THEN reg
  ELSE IF reg[type] = <<>> THEN reg
  ELSE IF Len(reg[type]) = 1
       THEN [k \in DOMAIN reg \ {type} |-> reg[k]]
       ELSE [reg EXCEPT ![type] = SubSeq(@, 1, Len(@) - 1)]

\* removeEventListener, line 169-191
removeEventListener(t, type) ==
  /\ CallerReady(t)
  /\ listeners_mutex = "none"
  /\ event_listeners' = Remove(event_listeners, type)
  /\ UNCHANGED <<atomics, event_callback, mutexes, parser, curl_thread,
                 owners, pc, dispatchLocals, transport, closePc, callerPc,
                 history>>

\* ------------------------------------- registry calls made by a consumer
\* a listener running on the connection thread calls addEventListener
\* (line 154-161); no other thread holds the listener mutex across steps
ListenerCallsAddEventListener(type, listener) ==
  /\ pc = "ls_run"
  /\ CloseIdle("bg")
  /\ TotalListeners + PendingAdds < MaxRegistered
  /\ listeners_mutex = "none"
  /\ event_listeners' = IF closed THEN event_listeners
                        ELSE Insert(event_listeners, type, listener)
  /\ UNCHANGED <<atomics, event_callback, mutexes, parser, curl_thread,
                 owners, pc, dispatchLocals, transport, closePc, callerPc,
                 history>>

\* a listener running on the connection thread calls removeEventListener
\* (line 169-191)
ListenerCallsRemoveEventListener(type) ==
  /\ pc = "ls_run"
  /\ CloseIdle("bg")
  /\ listeners_mutex = "none"
  /\ event_listeners' = Remove(event_listeners, type)
  /\ UNCHANGED <<atomics, event_callback, mutexes, parser, curl_thread,
                 owners, pc, dispatchLocals, transport, closePc, callerPc,
                 history>>

\* the primary callback calls setEventCallback, whose lock_guard (line 146)
\* locks the std::mutex that dispatch_event holds on this thread (line 204).
\* Relocking is undefined behaviour; this outcome is the thread blocking on
\* itself for ever
SetEventCallbackRelockBlocks ==
  /\ pc = "cb_run"
  /\ CloseIdle("bg")
  /\ callback_mutex = "bg"
  /\ pc' = "cb_blocked"
  /\ UNCHANGED <<atomics, registries, mutexes, parser, curl_thread, owners,
                 dispatchLocals, transport, closePc, callerPc, history>>

\* the other outcome: lock() raises std::system_error, which leaves
\* setEventCallback and the callback and is caught by dispatch_event
\* (line 211)
SetEventCallbackRelockThrows ==
  /\ pc = "cb_run"
  /\ CloseIdle("bg")
  /\ callback_mutex = "bg"
  /\ log' = [log EXCEPT ![Len(log)].raised = TRUE]
  /\ callback_mutex' = "none"
  /\ pc' = "de_copy"
  /\ UNCHANGED <<atomics, registries, listeners_mutex, buffer_mutex, parser,
                 curl_thread, owners, dispatchLocals, transport, closePc,
                 callerPc, emitted, nline, bodies, closeReturns, destructed,
                 sent>>

\* line 75: the shared_ptr locked by the thread lambda is an owner for as
\* long as connect() runs
ThreadHoldsStrong(o) == o.thread

\* the callers give up the handle returned by create() without close(); the
\* destructor (line 90-93) runs on the releasing thread when no owner is left
DropLastReference(t) ==
  /\ \A u \in Callers : CallerReady(u)
  /\ owners' = [owners EXCEPT !.caller = FALSE]
  /\ IF ThreadHoldsStrong(owners)
     THEN UNCHANGED <<destructed, closePc>>
     ELSE /\ destructed' = TRUE
          /\ closePc' = [closePc EXCEPT ![t] = "enter"]
  /\ UNCHANGED <<atomics, registries, mutexes, parser, curl_thread, pc,
                 dispatchLocals, transport, callerPc, log, emitted, nline,
                 bodies, closeReturns, sent>>

\* ------------------------------------------------------------ specification
ConnectionThread ==
  \/ ThreadStart
  \/ ConnectLoopTop
  \/ AttemptStart
  \/ AttemptStartFails
  \/ AttemptFail
  \/ Backoff
  \/ ThreadExit
  \/ WriteCheck
  \/ WriteOpen
  \/ WriteParse
  \/ ParseEnter
  \/ ParseLoop
  \/ ProcessCheck
  \/ ProcessMake
  \/ ProcessReset
  \/ DispatchCheck
  \/ DispatchLock
  \/ CallbackReturn
  \/ DispatchCopy
  \/ DispatchIter
  \/ ListenerReturn

Transport ==
  \/ TransportDeliver
  \/ TransportFinish
  \/ TransportFail

CloseStep(t) ==
  \/ CloseEnter(t)
  \/ CloseStoreFlags(t)
  \/ CloseClearCallback(t)
  \/ CloseClearListeners(t)
  \/ CloseJoin(t)
  \/ CloseClearBuffer(t)

\* the thread that owns the handle registers and unregisters consumers
RegistryStep(t) ==
  \/ \E cb \in CallbackIds : setEventCallback(t, cb)
  \/ \E ty \in ListenTypes : addEventListenerCheck(t, ty, NextListener)
  \/ addEventListenerInsert(t)
  \/ \E ty \in ListenTypes : removeEventListener(t, ty)

Next ==
  \/ ConnectionThread
  \/ ProgressPoll
  \/ Transport
  \/ CallbackCallsClose
  \/ \E t \in Threads : CloseStep(t)
  \/ \E t \in Threads : CloseRelockBlocks(t)
  \/ \E t \in Threads : CloseRelockThrows(t)
  \/ \E t \in Callers : CallClose(t)
  \/ RegistryStep(Owner)
  \/ DropLastReference(Owner)

Spec == Init /\ [][Next]_vars


NextParse ==
  \/ TransportDeliver
  \/ WriteCheck
  \/ WriteOpen
  \/ WriteParse
  \/ ParseEnter
  \/ ParseLoop
  \/ ProcessCheck
  \/ ProcessMake
  \/ ProcessReset
  \/ DispatchCheck
  \/ DispatchLock
  \/ CallbackReturn
  \/ DispatchCopy
  \/ DispatchIter

SpecParse == InitParse /\ [][NextParse]_vars

\* one caller thread, whose calls are in sequence, and the connection thread
\* with consumer callbacks that may call close()
NextSeq ==
  \/ ConnectionThread
  \/ ProgressPoll
  \/ Transport
  \/ CallbackCallsClose
  \/ CloseStep(Owner)
  \/ CloseStep("bg")
  \/ CloseRelockBlocks("bg")
  \/ CloseRelockThrows("bg")
  \/ CallClose(Owner)
  \/ RegistryStep(Owner)

SpecSeq == InitSeq /\ [][NextSeq]_vars

\* close() called from caller threads while consumer callbacks return and the
\* transport keeps polling the abort hook
NextLive ==
  \/ ConnectionThread
  \/ ProgressPoll
  \/ Transport
  \/ \E t \in Callers : CloseStep(t)
  \/ \E t \in Callers : CallClose(t)

SpecLive ==
  /\ InitLive
  /\ [][NextLive]_vars
  /\ WF_vars(ConnectionThread)
  /\ WF_vars(ProgressPoll)
  /\ \A t \in Callers : WF_vars(CloseStep(t))

\* dispatch to consumers that return or raise, while the owner may call
\* close()
NextDispatch ==
  \/ ConnectionThread
  \/ CallbackRaises
  \/ ListenerRaises
  \/ ProgressPoll
  \/ Transport
  \/ CloseStep(Owner)
  \/ CallClose(Owner)

SpecDispatch == InitDispatch /\ [][NextDispatch]_vars

\* the registry calls a consumer makes from inside its invocation
ConsumerCalls ==
  \/ \E ty \in ListenTypes : ListenerCallsAddEventListener(ty, NextListener)
  \/ \E ty \in ListenTypes : ListenerCallsRemoveEventListener(ty)
  \/ SetEventCallbackRelockBlocks
  \/ SetEventCallbackRelockThrows

\* the owner registers and unregisters consumers while events are dispatched
NextRegistry ==
  \/ ConnectionThread
  \/ ProgressPoll
  \/ Transport
  \/ RegistryStep(Owner)
  \/ CloseStep(Owner)
  \/ CallClose(Owner)

SpecRegistry == InitDispatch /\ [][NextRegistry]_vars

\* the consumers themselves change the registries from inside a dispatch
NextReentrant ==
  \/ ConnectionThread
  \/ ProgressPoll
  \/ Transport
  \/ ConsumerCalls
  \/ CloseStep(Owner)
  \/ CallClose(Owner)

SpecReentrant == InitDispatch /\ [][NextReentrant]_vars

\* attempts that succeed, fail or are aborted, one after the other, until
\* the owner calls close()
NextRetry ==
  \/ ConnectionThread
  \/ ProgressPoll
  \/ Transport
  \/ CloseStep(Owner)
  \/ CallClose(Owner)

SpecRetry == InitRetry /\ [][NextRetry]_vars

\* the retry loop with a connection thread that keeps being scheduled
SpecLoop ==
  /\ InitLoop
  /\ [][NextRetry]_vars
  /\ WF_vars(ConnectionThread)

\* the retry loop without close(): attempts, failures and backoff
Retry ==
  \/ ThreadStart
  \/ ConnectLoopTop
  \/ AttemptStart
  \/ AttemptStartFails
  \/ AttemptFail
  \/ Backoff
  \/ TransportFinish
  \/ TransportFail

NextId ==
  \/ NextParse
  \/ Retry

SpecId == InitId /\ [][NextId]_vars

\* ------------------------------------------------------------------- claims
Stopped == pc \in {"STOPPED", "exit"}

\* C1: once a close() call has returned, no consumer callback (primary
\* callback or listener) is invoked any more.
C1_NoDispatchAfterClose ==
  [][closeReturned => Len(log') <= Len(log)]_vars

\* the step by which thread t returns from close()
CloseReturns(t) ==
  /\ closePc[t] \in {"enter", "clear_buf"}
  /\ closePc'[t] = "none"
  /\ pc' = pc

\* C2: every close() call returns only after the connection loop has
\* terminated, a call that overlaps another close() call included.
C2_CloseReturnsAfterStop ==
  [][\A t \in Threads : CloseReturns(t) => Stopped]_vars

\* C3: a close() called from inside a consumer callback on the connection
\* thread never blocks for ever on the callback lock, the buffer lock or the
\* join.
C3_CloseFromCallbackNeverBlocks ==
  closePc["bg"] # "deadlock"

\* C4: a close() called from a caller thread eventually returns and the
\* connection loop eventually stops, when callbacks return and the transport
\* keeps polling the abort hook.
C4_CloseTerminates ==
  /\ (\E t \in Callers : closePc[t] # "none") ~> Stopped
  /\ \A t \in Callers : (closePc[t] # "none") ~> (closePc[t] = "none")

\* close() has returned after a transfer had started, the thread has ended
C4_Witness ==
  /\ closeReturned
  /\ pc = "exit"
  /\ curl_thread = "joined"
  /\ bodies = 0

engine == <<closed, running, should_retry, open_event_sent, event_callback,
            event_listeners, buffer, event_type, event_data, last_event_id,
            curl_thread>>

\* C5: a close() call made after a close() call has returned does no teardown
\* work: its one step returns and leaves flags, registries, parse buffer,
\* pending fields and thread handle unchanged.
C5_SecondCloseIsNoOp ==
  [][\A t \in Threads :
       (closeReturned /\ closePc[t] = "enter" /\ closePc'[t] # "enter")
         => (closePc'[t] = "none" /\ UNCHANGED engine)]_vars

C5_Witness ==
  /\ closeReturns = 2
  /\ curl_thread = "joined"
  /\ \A t \in Threads : closePc[t] = "none"

\* C6: after close() has returned the listener registry and the primary
\* callback slot are empty in every state, whatever is registered later.
C6_RegistriesEmptyAfterClose ==
  closeReturned => (event_callback = NoCallback /\ event_listeners = EmptyRegistry)

\* C7: when the callers drop the last reference without close(), the engine
\* is destroyed (and the destructor's close() stops the loop).
C7_DroppedEngineIsDestroyed ==
  ~owners.caller => destructed

\* the part of the response delivered so far
Delivered == SubSeq(Render(served), 1, Len(Render(served)) - Len(net))

EmittedEvents == [i \in 1..Len(emitted) |-> emitted[i].ev]

\* C8: between chunks, the events emitted for the chunks fed so far are the
\* events emitted by feeding the same bytes as one chunk.
C8_ChunkSplitInvariant ==
  pc = "perform" =>
    EmittedEvents = FeedOneChunk(EmptyPending, <<>>, Delivered).out

\* an event has been emitted and the last chunk ended between CR and LF
C8_Witness ==
  /\ pc = "perform"
  /\ emitted # <<>>
  /\ buffer # <<>>
  /\ buffer[Len(buffer)] = CR
  /\ net # <<>>

\* the lines of the block that the blank line n ends
PrevBlank(lines, n) ==
  LET blanks == {i \in 1..(n - 1) : lines[i].kind = "blank"}
  IN IF blanks = {} THEN 0 ELSE CHOOSE i \in blanks : \A j \in blanks : j <= i

Block(lines, n) == SubSeq(lines, PrevBlank(lines, n) + 1, n - 1)

IsData(l) == l.kind = "data"
IsEvent(l) == l.kind = "event"

RECURSIVE JoinValues(_)
JoinValues(ls) ==
  IF ls = <<>> THEN <<>>
  ELSE IF Len(ls) = 1 THEN ls[1].val
  ELSE ls[1].val \o <<NL>> \o JoinValues(Tail(ls))

\* C9: the data of every emitted event is the \n-joined sequence of all the
\* data: values of its block, empty values included, and a blank line whose
\* block has no data: field emits no event.
C9_DataIsJoinOfValues ==
  /\ \A i \in 1..Len(emitted) :
       emitted[i].ev.data = JoinValues(SelectSeq(Block(served, emitted[i].line), IsData))
  /\ \A i \in 1..Len(emitted) :
       SelectSeq(Block(served, emitted[i].line), IsData) # <<>>

\* C10: an emitted event whose own block has no event: field has type
\* "message".
C10_DefaultTypeIsMessage ==
  \A i \in 1..Len(emitted) :
    SelectSeq(Block(served, emitted[i].line), IsEvent) = <<>>
      => emitted[i].ev.type = MESSAGE

IsId(l) == l.kind = "id"

\* the value of the last id: line among the first n lines, empty when none
LastId(lines, n) ==
  LET ids == {i \in 1..n : IsId(lines[i])}
  IN IF ids = {} THEN <<>>
     ELSE lines[CHOOSE i \in ids : \A j \in ids : j <= i].val

\* positions of the connection thread inside dispatch_event
DispatchPcs == {"de_check", "de_lock", "cb_run", "de_copy", "de_iter", "ls_run"}

\* C11: every event handed to dispatch carries the value of the most recent
\* id: line of the response before it (empty when there is none), and the
\* persisted id changes only in the step that parses an id: line, to that
\* line's value: not on event emission, failure, backoff or reconnect.
C11_LastEventIdPersists ==
  /\ [](\A i \in 1..Len(emitted) :
          emitted[i].ev.id = LastId(served, emitted[i].line))
  /\ [](pc \in DispatchPcs => event.id = last_event_id)
  /\ [][last_event_id' # last_event_id =>
          /\ pc = "ps_loop"
          /\ nline' = nline + 1
          /\ IsId(served[nline'])
          /\ last_event_id' = served[nline'].val]_vars

\* an event whose block has no id: line was emitted with a non-empty id
C11_Witness ==
  \E i \in 1..Len(emitted) :
    /\ emitted[i].ev.id # <<>>
    /\ SelectSeq(Block(served, emitted[i].line), IsId) = <<>>

\* the consumers the log names, in invocation order
Invoked(l) == [i \in 1..Len(l) |-> l[i].who]

RaisedCount(l) == Cardinality({i \in 1..Len(l) : l[i].raised})

\* the registered consumers of an event: the primary callback, then the
\* listeners of the event's type in insertion order
Consumers(ev) ==
  (IF event_callback # NoCallback THEN <<event_callback>> ELSE <<>>)
    \o (IF ev.type \in DOMAIN event_listeners THEN event_listeners[ev.type] ELSE <<>>)

\* the step by which dispatch_event returns to its caller
DispatchReturns == pc \in DispatchPcs /\ pc' \notin DispatchPcs

\* C12: when a consumer raised during a dispatch and the engine is not
\* closed, dispatch_event returns having invoked every registered consumer of
\* the event with that event, and the step in which a consumer raises leaves
\* the connection thread inside the dispatch with the flags unchanged, so the
\* stream and the retry loop go on.
C12_ConsumerFailuresIsolated ==
  /\ [][(DispatchReturns /\ ~closed /\ RaisedCount(log) > 0) =>
          /\ Invoked(log) = Consumers(event)
          /\ \A i \in 1..Len(log) : log[i].ev = event
          /\ pc' = ReturnTo(ret)]_vars
  /\ [][RaisedCount(log') > RaisedCount(log) =>
          /\ pc' \in {"de_copy", "de_iter"}
          /\ UNCHANGED <<atomics, event, registries>>]_vars

\* the first listener raised and the second one is running, after the
\* primary callback
C12_Witness ==
  /\ pc = "ls_run"
  /\ ~closed
  /\ Len(log) = 3
  /\ log[2].raised

IsPrefix(a, b) == Len(a) <= Len(b) /\ a = SubSeq(b, 1, Len(a))

\* C18: while the engine is not closed the consumers invoked so far for the
\* event in dispatch are a prefix of: the primary callback, then the listeners
\* registered for the event's type in insertion order (so no listener of
\* another type is invoked); a dispatch that returns on a non-closed engine
\* has invoked all of them; and once closed is set, the listener loop invokes
\* no further listener.
C18_DispatchOrder ==
  /\ []((pc \in DispatchPcs /\ ~closed) => IsPrefix(Invoked(log), Consumers(event)))
  /\ [][(DispatchReturns /\ ~closed) => Invoked(log) = Consumers(event)]_vars
  /\ [][(pc = "de_iter" /\ closed) => Len(log') <= Len(log)]_vars

\* the primary callback and two listeners of the event's type have been
\* invoked in order while a listener of the other type is registered
C18_Witness ==
  /\ pc = "ls_run"
  /\ ~closed
  /\ Invoked(log) = <<"f", "l1", "l3">>
  /\ DOMAIN event_listeners = ListenTypes

\* new is old without the most recently added listener of type ty
LifoRemoved(old, new, ty) ==
  IF ty \notin DOMAIN old THEN new = old
  ELSE /\ \A k \in DOMAIN old \ {ty} : k \in DOMAIN new /\ new[k] = old[k]
       /\ IF Len(old[ty]) = 1
          THEN DOMAIN new = DOMAIN old \ {ty}
          ELSE /\ DOMAIN new = DOMAIN old
               /\ Append(new[ty], old[ty][Len(old[ty])]) = old[ty]

\* C13: a removeEventListener call for a type removes the most recently added
\* listener still registered for that type and nothing else, changes nothing
\* when the type is absent, deletes a type whose last listener it removes, and
\* no type ever maps to an empty list.
C13_RemoveIsLifo ==
  /\ [][\A ty \in ListenTypes :
          removeEventListener(Owner, ty) =>
            LifoRemoved(event_listeners, event_listeners', ty)]_vars
  /\ [](\A ty \in DOMAIN event_listeners : event_listeners[ty] # <<>>)

\* the first listener registered is gone and the second one, registered for
\* "message", is still there: the listeners after it and the one of the
\* other type were removed
C13_Witness ==
  /\ ~closed
  /\ DOMAIN event_listeners = {MESSAGE}
  /\ event_listeners[MESSAGE] = <<"l2">>

\* C17: a registry call made by a consumer from inside its invocation
\* (addEventListener or removeEventListener by a listener, setEventCallback by
\* the primary callback) returns: the connection thread never blocks in it.
C17_ReentrantCallsReturn ==
  pc # "cb_blocked"

\* C19: every connection attempt starts with an empty parse buffer and empty
\* pending event type and data.
C19_ParseStateFreshEachAttempt ==
  [][(pc = "reset_open" /\ pc' = "perform") =>
       (buffer = <<>> /\ event_type = <<>> /\ event_data = <<>>)]_vars

\* C20: once close() has returned and no addEventListener or close() call is
\* in progress, the listener registry is empty.
C20_NoListenerSurvivesClose ==
  (/\ closeReturned
   /\ \A t \in Callers : callerPc[t] = Idle
   /\ \A t \in Threads : CloseIdle(t))
    => event_listeners = EmptyRegistry

IsErrorSent(e) == e.from = "error"
IsOpenSent(e) == e.from = "open"

SentErrors == SelectSeq(sent, IsErrorSent)
SentOpens == SelectSeq(sent, IsOpenSent)

\* the number a string of decimal digits denotes
RECURSIVE Value(_)
Value(ds) ==
  IF ds = <<>> THEN 0
  ELSE 10 * Value(SubSeq(ds, 1, Len(ds) - 1))
         + (CHOOSE d \in 0..9 : Digits[d + 1] = ds[Len(ds)])

\* positions of the connection thread between the open event and the end of
\* write_callback
ParsePcs == {"wc_parse", "ps_check", "ps_loop", "pe_check", "pe_make", "pe_reset"}

\* on a non-closed engine, a chunk is parsed only after the open event of the
\* attempt has been dispatched
OpenSentBeforeParsing ==
  (pc \in ParsePcs /\ ~closed) => (sent # <<>> /\ IsOpenSent(sent[1]))

\* C14: an attempt dispatches at most one error event; when it has failed
\* with an HTTP status and the engine is not closed, the loop is in backoff
\* with exactly one error event dispatched, whose data reads as the status in
\* decimal; an attempt without a status (success, abort, failure before any
\* response) has dispatched none; the error dispatch returns into the backoff;
\* and an attempt that parses body bytes has dispatched its own open event.
C14_ErrorEventOnFailure ==
  /\ [](Len(SentErrors) <= 1)
  /\ []((pc = "backoff" /\ ~closed /\ response_code > 0) =>
          /\ Len(SentErrors) = 1
          /\ SentErrors[1].ev.type = ERROR
          /\ SentErrors[1].ev.data # <<>>
          /\ Value(SentErrors[1].ev.data) = response_code)
  /\ [](response_code = 0 => SentErrors = <<>>)
  /\ [][(DispatchReturns /\ ret = "error") => pc' = "backoff"]_vars
  /\ []OpenSentBeforeParsing

\* a transfer failed with status 503 after its open event and one parsed
\* event; the error event was dispatched and the loop is in backoff
C14_Witness ==
  /\ pc = "backoff"
  /\ ~closed
  /\ response_code = 503
  /\ Len(sent) = 3
  /\ sent[3].ev = NitroEventSourceEvent(<<>>, ERROR, <<"5", "0", "3">>)

\* C16: an attempt dispatches at most one open event, of type "open" with
\* empty data and the last event id of that moment; every parsed event it
\* dispatches comes after that open event; each attempt starts with
\* openEventSent false and nothing dispatched, and dispatches its own open
\* event before it parses.
C16_OneOpenPerAttempt ==
  /\ [](Len(SentOpens) <= 1)
  /\ [][(Len(sent') = Len(sent) + 1 /\ IsOpenSent(sent'[Len(sent')])) =>
          sent'[Len(sent')].ev = NitroEventSourceEvent(last_event_id, OPEN, <<>>)]_vars
  /\ [](\A i \in 1..Len(sent) :
          sent[i].from = "parse" => (i > 1 /\ IsOpenSent(sent[1])))
  /\ [][(pc = "reset_open" /\ pc' = "perform") =>
          (~open_event_sent' /\ sent' = <<>>)]_vars
  /\ []OpenSentBeforeParsing

\* the second transfer with a body has dispatched its open event and a
\* parsed event after it
C16_Witness ==
  /\ ~closed
  /\ bodies = MaxAttempts - 2
  /\ Len(sent) = 2
  /\ IsOpenSent(sent[1])
  /\ sent[2].from = "parse"

\* C15: the connection loop is stopped only when close() has set closed
\* (nothing else clears running or shouldRetry), and from every backoff,
\* however many attempts have failed before, the loop comes back to the start
\* of another attempt unless close() is called.
C15_OnlyCloseEndsRetry ==
  /\ [](Stopped => closed)
  /\ []((~running \/ ~should_retry) => closed)
  /\ (pc = "backoff") ~> (pc = "reset_open" \/ closed)

\* an attempt made after the one that received the body has failed and the
\* loop is in backoff, not closed
C15_Witness ==
  /\ pc = "backoff"
  /\ ~closed
  /\ bodies = 0
  /\ net = <<>>
  /\ ~open_event_sent

====
